---- MODULE Spec2Model ----
(***************************************************************************)
(* A model of patina: Option (src/patina/option.py), Ref                   *)
(* (src/patina/ref.py) and HashMap with its Entry family                   *)
(* (src/patina/hashmap.py).                                                *)
(*                                                                         *)
(* Every method is a pure operator from the receiver's state (and the      *)
(* arguments) to a record holding the receiver's new state, the returned   *)
(* value and the number of times a caller-supplied callable was invoked.   *)
(* Actions apply one method (or one chained expression) to the program     *)
(* state and record what was called and what came back in `last`.          *)
(***************************************************************************)
EXTENDS Integers, Sequences, FiniteSets, TLC

\* ---------------------------------------------------------------- bounds
MaxVal == 2
MaxKey == 2
NumOpts == 2
MaxPairs == 2

Values == 0..MaxVal
Keys == 1..MaxKey
OptIds == 1..NumOpts

\* An unset `_value` slot (never assigned, or removed by `del self._value`).
Unset == -1
\* Placeholder for "no key" / "no value" in records of uniform shape.
NoKey == -1
NoVal == -1
\* The sentinel `nothing`: the default of the keywords `left` and `right`
\* of the tagged draft's constructor, distinct from every value.
nothing == -2
\* Python's None, the null of a nullable-style value.
null == -3
\* The fixed message of None_._unwrap.
UnwrapMsg == 0

\* opt, optRef: the Option objects and whether the caller holds a Ref into
\* each; dict, entry, refs: the HashMap's `_dict`, the Entry the caller
\* holds and the keys for which the caller holds a Ref; resP, resT: one
\* Result value in the class-per-variant draft and in the tagged draft;
\* last: the last call and what came back.
VARIABLES opt, optRef, dict, entry, refs, resP, resT, last

vars == <<opt, optRef, dict, entry, refs, resP, resT, last>>

\* ------------------------------------------------------------ callables
\* Caller-supplied callables are inputs. A value-to-value callable is one of
\* two total functions on Values; a thunk `lambda: v` is given by the value
\* v it returns; a key-to-value callable maps a key into Values.
Fns == {"incr", "zero"}
Apply(g, v) == IF g = "incr" THEN (v + 1) % (MaxVal + 1) ELSE 0

\* The verdict of a retain predicate, a function of the key. What the
\* predicate does with its Ref is ref.modify(g) for g in Fns, or "none".
Preds == {"even", "always", "never"}
ApplyPred(p, k) ==
    IF p = "even" THEN k % 2 = 0 ELSE IF p = "always" THEN TRUE ELSE FALSE

\* The messages passed to expect and expect_err.
Msgs == {1, 2}

KeyFns == {"ident", "pred"}
ApplyKey(kf, k) == IF kf = "ident" THEN k % (MaxVal + 1) ELSE k - 1

\* ------------------------------------------------------ returned values
\* A value returned to (or an exception raised at) the caller.
Ret(kind, key, val) == [kind |-> kind, key |-> key, val |-> val]
RetSome(v) == Ret("Some", NoKey, v)
RetNone == Ret("None_", NoKey, NoVal)
RetPair(k, v) == Ret("SomePair", k, v)
RetValue(v) == Ret("Value", NoKey, v)
RetRef(k) == Ret("Ref", k, NoVal)
RetBool(b) == Ret(IF b THEN "True" ELSE "False", NoKey, NoVal)
RetUnit == Ret("Unit", NoKey, NoVal)
RetEntry(kind, k) == Ret(kind, k, NoVal)
Raise(exc) == Ret(exc, NoKey, NoVal)

IsRaise(r) == r.kind \in {"AttributeError", "KeyError", "AssertionError"}

\* ------------------------------------------------------------- Option
\* An Option object: its runtime class and the content of its `_value` slot.
Some(v) == [cls |-> "Some", value |-> v]
None_ == [cls |-> "None_", value |-> Unset]

\* The returned Option, as the caller sees it (a fresh object).
AsRet(o) == IF o.cls = "Some" THEN RetSome(o.value) ELSE RetNone

Some_is_some(o) == TRUE
None_is_some(o) == FALSE
Option_is_some(o) == IF o.cls = "Some" THEN Some_is_some(o) ELSE None_is_some(o)

Some_is_none(o) == FALSE
None_is_none(o) == TRUE
Option_is_none(o) == IF o.cls = "Some" THEN Some_is_none(o) ELSE None_is_none(o)

\* Ref closures built by Some._make_value_ref: they close over `self`, the
\* object, whatever its class is when they run.
get_value(o) == IF o.value = Unset THEN Raise("AttributeError") ELSE RetValue(o.value)
set_value(o, v) == [o EXCEPT !.value = v]

\* Ref.modify(f) on a Ref built by Some._make_value_ref.
OptRef_modify(o, g) ==
    LET r == get_value(o)
    IN  IF IsRaise(r) THEN [self |-> o, ret |-> r, calls |-> 0]
        ELSE [self |-> set_value(o, Apply(g, r.val)), ret |-> RetRef(NoKey),
              calls |-> 1]

\* Mutant: the Some case evaluates the callable and stores its result.
Some_get_or_insert_with_eager(o, fv) ==
    [self |-> [o EXCEPT !.value = fv], ret |-> RetRef(NoKey), calls |-> 1]

Some_get_or_insert_with(o, fv) ==
    [self |-> o, ret |-> RetRef(NoKey), calls |-> 0]

None_convert_to_some(o, val) == [cls |-> "Some", value |-> val]

None_get_or_insert_with(o, fv) ==
    [self |-> None_convert_to_some(o, fv), ret |-> RetRef(NoKey), calls |-> 1]

Option_get_or_insert_with(o, fv) ==
    IF o.cls = "Some" THEN Some_get_or_insert_with(o, fv)
    ELSE None_get_or_insert_with(o, fv)

Option_get_or_insert(o, v) == Option_get_or_insert_with(o, v)

\* Mutant: the class is switched but the payload is not deleted.
Some_take_keeps_value(o) ==
    [self |-> [o EXCEPT !.cls = "None_"], ret |-> AsRet(Some(o.value))]

\* Mutant: the payload is deleted but the class is not switched to None_.
Some_take_keeps_class(o) ==
    [self |-> [o EXCEPT !.value = Unset], ret |-> AsRet(Some(o.value))]

Some_take(o) ==
    [self |-> [cls |-> "None_", value |-> Unset], ret |-> AsRet(Some(o.value))]

None_take(o) == [self |-> o, ret |-> AsRet(None_)]

Option_take(o) == IF o.cls = "Some" THEN Some_take(o) ELSE None_take(o)

Some_replace(o, value) ==
    [self |-> [o EXCEPT !.value = value], ret |-> AsRet(Some(o.value))]

\* Mutant: the new value is dropped instead of being stored.
None_replace_drops_value(o, value) ==
    [self |-> o, ret |-> AsRet(None_)]

None_replace(o, value) ==
    [self |-> None_convert_to_some(o, value), ret |-> AsRet(None_)]

Option_replace(o, value) ==
    IF o.cls = "Some" THEN Some_replace(o, value) ELSE None_replace(o, value)

\* dependent_ord("_value"): the generated __eq__.
ordering_function(a, b) ==
    IF b.cls # a.cls THEN "NotImplemented"
    ELSE IF a.value = Unset \/ b.value = Unset THEN "AttributeError"
    ELSE IF a.value = b.value THEN "True" ELSE "False"

\* a == b as the interpreter evaluates it: a.__eq__(b), then the reflected
\* b.__eq__(a), then identity.
Option_eq(a, b, same) ==
    LET l == ordering_function(a, b)
        r == ordering_function(b, a)
    IN  IF l # "NotImplemented" THEN l
        ELSE IF r # "NotImplemented" THEN r
        ELSE IF same THEN "True" ELSE "False"

\* ------------------------------------------------------------- HashMap
\* `_dict` is the host dict: a sequence of <<key, value>> pairs with
\* distinct keys, in insertion order.
dict_keys(d) == {d[i][1] : i \in DOMAIN d}
dict_contains(d, k) == k \in dict_keys(d)
dict_index(d, k) == CHOOSE i \in DOMAIN d : d[i][1] = k
\* d[k]
dict_getitem(d, k) ==
    IF dict_contains(d, k) THEN RetValue(d[dict_index(d, k)][2])
    ELSE Raise("KeyError")
\* d[k] = v
dict_setitem(d, k, v) ==
    IF dict_contains(d, k) THEN [d EXCEPT ![dict_index(d, k)] = <<k, v>>]
    ELSE Append(d, <<k, v>>)
\* d without k (the dict left by d.pop(k, default) and del d[k])
dict_delitem(d, k) == SelectSeq(d, LAMBDA p : p[1] # k)

Result(d, ret, calls) == [dict |-> d, ret |-> ret, calls |-> calls]

HashMap_len(d) == Len(d)

HashMap_contains(d, key) == dict_contains(d, key)

HashMap_get(d, key) ==
    LET val == dict_getitem(d, key)
    IN  IF IsRaise(val) THEN RetNone ELSE RetSome(val.val)

\* Mutant: the value returned is the new one, not the one that was stored.
HashMap_insert_returns_new(d, k, v) ==
    Result(dict_setitem(d, k, v),
           IF dict_contains(d, k) THEN RetSome(v) ELSE RetNone, 0)

HashMap_insert(d, k, v) ==
    LET existing == dict_getitem(d, k)
        result == IF IsRaise(existing) THEN RetNone ELSE RetSome(existing.val)
    IN  Result(dict_setitem(d, k, v), result, 0)

\* Mutant: the value is looked up but the key is not evicted.
HashMap_remove_keeps_key(d, key) == Result(d, HashMap_get(d, key), 0)

HashMap_remove(d, key) ==
    LET val == dict_getitem(d, key)
    IN  IF IsRaise(val) THEN Result(d, RetNone, 0)
        ELSE Result(dict_delitem(d, key), RetSome(val.val), 0)

HashMap_remove_entry(d, key) ==
    LET r == HashMap_remove(d, key)
    IN  Result(r.dict,
               IF r.ret.kind = "Some" THEN RetPair(key, r.ret.val) ELSE RetNone,
               0)

\* The closures of the Ref built by HashMap._make_value_ref(key).
ref_get(d, key) == dict_getitem(d, key)
\* Mutant: the setter writes the slot the dict lists first, whatever its key.
ref_set_first_slot(d, key, val) ==
    IF d = <<>> THEN <<<<key, val>>>> ELSE [d EXCEPT ![1] = <<d[1][1], val>>]

ref_set(d, key, val) == dict_setitem(d, key, val)

\* Mutant: the value read is written back without applying f.
Ref_modify_ignores_f(d, key, g) ==
    LET r == ref_get(d, key)
    IN  IF IsRaise(r) THEN Result(d, r, 0)
        ELSE Result(ref_set(d, key, r.val), RetRef(key), 1)

\* Ref.modify(f): self.set(f(self.get())); return self
Ref_modify(d, key, g) ==
    LET r == ref_get(d, key)
    IN  IF IsRaise(r) THEN Result(d, r, 0)
        ELSE Result(ref_set(d, key, Apply(g, r.val)), RetRef(key), 1)

\* get_mut builds the same pair of closures as _make_value_ref.
HashMap_get_mut(d, key) ==
    IF ~dict_contains(d, key) THEN RetNone ELSE Ret("SomeRef", key, NoVal)

\* ------------------------------------------------- HashMap, bulk methods
Bulk(d, ret, log, items) == [dict |-> d, ret |-> ret, log |-> log, items |-> items]

\* list(self._dict): the keys, in the dict's order
dict_list(d) == [i \in DOMAIN d |-> d[i][1]]

HashMap_is_empty(d) == d = <<>>

HashMap_clear(d) == Bulk(<<>>, RetUnit, <<>>, <<>>)

\* Mutant: the pairs are listed but the dict is not cleared.
HashMap_drain_keeps_dict(d) == Bulk(d, RetUnit, <<>>, d)

HashMap_drain(d) ==
    LET entries == d
    IN  Bulk(HashMap_clear(d).dict, RetUnit, <<>>, entries)

\* f(key, ref) for the retain predicate (p, g): ref.modify(g) unless g is
\* "none", then the verdict ApplyPred(p, key).  With g = "remove_next" the
\* predicate is `lambda k, ref: (m.remove(k + 1), p(k))[1]`: it removes
\* another key from the map it is retaining.
RECURSIVE retain_loop(_, _, _, _, _)
retain_loop(d, snap, p, g, log) ==
    IF snap = <<>> THEN Bulk(d, RetUnit, log, <<>>)
    ELSE LET key == Head(snap)
             m == IF g = "none" THEN Result(d, RetRef(key), 0)
                  ELSE IF g = "remove_next"
                       THEN Result(HashMap_remove(d, key + 1).dict, RetRef(key), 0)
                  ELSE Ref_modify(d, key, g)
             seen == Append(log, key)
         IN  IF IsRaise(m.ret) THEN Bulk(m.dict, m.ret, seen, <<>>)
             ELSE IF ApplyPred(p, key)
                  THEN retain_loop(m.dict, Tail(snap), p, g, seen)
             ELSE IF ~dict_contains(m.dict, key)
                  THEN Bulk(m.dict, Raise("KeyError"), seen, <<>>)
             ELSE retain_loop(dict_delitem(m.dict, key), Tail(snap), p, g, seen)

\* Mutant: the snapshot misses the last key of the dict.
HashMap_retain_skips_last(d, p, g) ==
    retain_loop(d, SubSeq(dict_list(d), 1, Len(d) - 1), p, g, <<>>)

HashMap_retain(d, p, g) == retain_loop(d, dict_list(d), p, g, <<>>)

\* self._dict.update(it) for an iterable of pairs
RECURSIVE dict_update(_, _)
dict_update(d, pairs) ==
    IF pairs = <<>> THEN d
    ELSE dict_update(dict_setitem(d, Head(pairs)[1], Head(pairs)[2]), Tail(pairs))

\* Mutant: the pairs are applied last to first, so that the first pair of
\* a key wins.
HashMap_extend_reversed(d, it) ==
    Bulk(dict_update(d, [i \in DOMAIN it |-> it[Len(it) + 1 - i]]), RetUnit,
         <<>>, it)

HashMap_extend(d, it) == Bulk(dict_update(d, it), RetUnit, <<>>, it)

HashMap_new == <<>>

HashMap_from_iter(it) == HashMap_extend(HashMap_new, it)

\* Mutant: every Ref is bound to the key the loop ended on.
HashMap_values_mut_last_key(d) == [i \in DOMAIN d |-> d[Len(d)][1]]

\* values_mut(): the keys of the Refs yielded, in order
HashMap_values_mut(d) == [i \in DOMAIN d |-> d[i][1]]

\* iter_mut(): the <<key, key of the Ref>> pairs yielded, in order
HashMap_iter_mut(d) == [i \in DOMAIN d |-> <<d[i][1], d[i][1]>>]

\* for ref in <the Refs yielded>: ref.modify(g)
RECURSIVE modify_each(_, _, _)
modify_each(d, keys, g) ==
    IF keys = <<>> THEN Result(d, RetUnit, 0)
    ELSE LET m == Ref_modify(d, Head(keys), g)
         IN  IF IsRaise(m.ret) THEN m
             ELSE modify_each(m.dict, Tail(keys), g)

\* ------------------------------------------------------------- Entry
Entry(kind, key) == [kind |-> kind, key |-> key]
NoEntry == Entry("NoEntry", NoKey)

\* Mutant: the membership test is dropped, every entry is vacant.
HashMap_entry_always_vacant(d, key) == Entry("Vacant", key)

HashMap_entry(d, key) ==
    IF HashMap_contains(d, key) THEN Entry("Occupied", key)
    ELSE Entry("Vacant", key)

\* Mutant: the default is evaluated but written under no key.
VacantEntry_or_insert_with_stores_nothing(d, key, fv) ==
    Result(d, RetRef(key), 1)

\* Mutant: the occupied entry evaluates the default and stores it.
OccupiedEntry_or_insert_with_eager(d, key, fv) ==
    Result(HashMap_insert(d, key, fv).dict, RetRef(key), 1)

OccupiedEntry_or_insert_with(d, key, fv) == Result(d, RetRef(key), 0)

VacantEntry_or_insert_with(d, key, fv) ==
    Result(HashMap_insert(d, key, fv).dict, RetRef(key), 1)

Entry_or_insert_with(e, d, fv) ==
    IF e.kind = "Occupied" THEN OccupiedEntry_or_insert_with(d, e.key, fv)
    ELSE VacantEntry_or_insert_with(d, e.key, fv)

\* or_insert(default) is or_insert_with(lambda: default)
Entry_or_insert(e, d, default) == Entry_or_insert_with(e, d, default)

\* or_insert_with_key(default) is or_insert_with(partial(default, key))
Entry_or_insert_with_key(e, d, kf) ==
    Entry_or_insert_with(e, d, ApplyKey(kf, e.key))

\* VacantEntry.insert(value) is self.or_insert(value)
VacantEntry_insert(d, key, value) ==
    Entry_or_insert(Entry("Vacant", key), d, value)

\* OccupiedEntry.insert(value) is self._table.insert(key, value).unwrap()
OccupiedEntry_insert(d, key, value) ==
    LET r == HashMap_insert(d, key, value)
    IN  Result(r.dict,
               IF r.ret.kind = "None_" THEN Raise("AssertionError")
               ELSE RetValue(r.ret.val), 0)

Entry_insert(e, d, value) ==
    IF e.kind = "Occupied" THEN OccupiedEntry_insert(d, e.key, value)
    ELSE VacantEntry_insert(d, e.key, value)

\* and_modify(f) with f = (lambda ref: ref.modify(g)); the entry itself is
\* returned unless f raises.
OccupiedEntry_and_modify(d, key, g) ==
    LET r == Ref_modify(d, key, g)
    IN  Result(r.dict, IF IsRaise(r.ret) THEN r.ret ELSE RetEntry("Occupied", key), 1)

\* Mutant: the vacant entry invokes f as the occupied one does.
VacantEntry_and_modify_calls_f(d, key, g) ==
    LET r == Ref_modify(d, key, g)
    IN  Result(r.dict, IF IsRaise(r.ret) THEN r.ret ELSE RetEntry("Vacant", key), 1)

VacantEntry_and_modify(d, key, g) == Result(d, RetEntry("Vacant", key), 0)

Entry_and_modify(e, d, g) ==
    IF e.kind = "Occupied" THEN OccupiedEntry_and_modify(d, e.key, g)
    ELSE VacantEntry_and_modify(d, e.key, g)

\* OccupiedEntry.get() is self._table[self._key]
OccupiedEntry_get(d, key) == Result(d, dict_getitem(d, key), 0)

\* OccupiedEntry.remove() is self._table.remove(self._key).unwrap()
OccupiedEntry_remove(d, key) ==
    LET r == HashMap_remove(d, key)
    IN  Result(r.dict,
               IF r.ret.kind = "None_" THEN Raise("AssertionError")
               ELSE RetValue(r.ret.val), 0)

\* OccupiedEntry.remove_entry() is
\* self._table.remove_entry(self._key).unwrap()
OccupiedEntry_remove_entry(d, key) ==
    LET r == HashMap_remove_entry(d, key)
    IN  Result(r.dict,
               IF r.ret.kind = "None_" THEN Raise("AssertionError")
               ELSE Ret("Tuple", r.ret.key, r.ret.val), 0)

\* ------------------------------------------------------------- Result
\* A callable passed to a Result method: one of Fns, or the `lambda _: x`
\* that a method of the base class builds around its argument x.
Fn(name) == [name |-> name, val |-> NoVal]
Const(x) == [name |-> "const", val |-> x]
Call(h, v) == IF h.name = "const" THEN h.val ELSE Apply(h.name, v)
\* How many times a callable of the caller runs when h is called once.
Calls(h) == IF h.name = "const" THEN 0 ELSE 1
\* Callables that return a Result: ok_incr is `lambda v: Ok(v + 1)`,
\* err_same is `lambda v: Err(v)`.
ResFns == {"ok_incr", "err_same"}
\* What a method hands back: the Result the caller now holds, the value
\* returned as the caller sees it, and the number of calls of callables.
Out(res, ret, calls) == [res |-> res, ret |-> ret, calls |-> calls]

\* The class-per-variant draft: an object is its class and its `_value`;
\* a method is the pair of its definitions in Ok and in Err.
Ok(value) == [cls |-> "Ok", value |-> value]
Err(error) == [cls |-> "Err", value |-> error]
PResult_repr(r) == Ret(r.cls, NoKey, r.value)
PCallRes(h, v) ==
    IF h.name = "const" THEN h.val
    ELSE IF h.name = "ok_incr" THEN Ok(Apply("incr", v))
    ELSE Err(v)

PResult_is_ok(r) ==
    IF r.cls = "Ok"
    THEN Out(r, RetBool(TRUE), 0)
    ELSE Out(r, RetBool(FALSE), 0)

PResult_is_err(r) ==
    IF r.cls = "Ok"
    THEN Out(r, RetBool(FALSE), 0)
    ELSE Out(r, RetBool(TRUE), 0)

PResult_map(r, op) ==
    IF r.cls = "Ok"
    THEN LET n == Ok(Call(op, r.value))
         IN  Out(n, PResult_repr(n), Calls(op))
    ELSE LET n == Err(r.value)
         IN  Out(n, PResult_repr(n), 0)

PResult_map_or_else(r, default, f) ==
    IF r.cls = "Ok"
    THEN Out(r, RetValue(Call(f, r.value)), Calls(f))
    ELSE Out(r, RetValue(Call(default, r.value)), Calls(default))

PResult_map_err(r, op) ==
    IF r.cls = "Ok"
    THEN LET n == Ok(r.value)
         IN  Out(n, PResult_repr(n), 0)
    ELSE LET n == Err(Call(op, r.value))
         IN  Out(n, PResult_repr(n), Calls(op))

PResult_and_then(r, op) ==
    IF r.cls = "Ok"
    THEN LET n == PCallRes(op, r.value)
         IN  Out(n, PResult_repr(n), Calls(op))
    ELSE LET n == Err(r.value)
         IN  Out(n, PResult_repr(n), 0)

PResult_or_else(r, op) ==
    IF r.cls = "Ok"
    THEN LET n == Ok(r.value)
         IN  Out(n, PResult_repr(n), 0)
    ELSE LET n == PCallRes(op, r.value)
         IN  Out(n, PResult_repr(n), Calls(op))

PResult_unwrap_or_else(r, op) ==
    IF r.cls = "Ok"
    THEN Out(r, RetValue(r.value), 0)
    ELSE Out(r, RetValue(Call(op, r.value)), Calls(op))

\* AssertionError(f"{msg}: {value!r}") carries msg and the value,
\* AssertionError(value) the value alone.
PResult_expect(r, msg) ==
    IF r.cls = "Ok"
    THEN Out(r, RetValue(r.value), 0)
    ELSE Out(r, Ret("AssertionError", msg, r.value), 0)

\* Mutant: the error raised on Err does not carry the error value.
PResult_unwrap_drops_value(r) ==
    IF r.cls = "Ok"
    THEN Out(r, RetValue(r.value), 0)
    ELSE Out(r, Raise("AssertionError"), 0)

PResult_unwrap(r) ==
    IF r.cls = "Ok"
    THEN Out(r, RetValue(r.value), 0)
    ELSE Out(r, Ret("AssertionError", NoKey, r.value), 0)

PResult_expect_err(r, msg) ==
    IF r.cls = "Ok"
    THEN Out(r, Ret("AssertionError", msg, r.value), 0)
    ELSE Out(r, RetValue(r.value), 0)

PResult_unwrap_err(r) ==
    IF r.cls = "Ok"
    THEN Out(r, Ret("AssertionError", NoKey, r.value), 0)
    ELSE Out(r, RetValue(r.value), 0)

\* Methods of the base class, written with the abstract ones.
PResult_map_or(r, default, f) == PResult_map_or_else(r, Const(default), f)
PResult_and_(r, res) == PResult_and_then(r, Const(res))
PResult_or_(r, res) == PResult_or_else(r, Const(res))
PResult_unwrap_or(r, default) == PResult_unwrap_or_else(r, Const(default))

\* a == b for two objects of this draft: dependent_ord("_value") on Result.
PResult_eq(a, b, same) == Ret(Option_eq(a, b, same), NoKey, NoVal)

\* The tagged draft: one class with `_state` and the slots `_left` and
\* `_right`, of which the constructor assigns one.
\* No object: the constructor raised.
NoResult == [state |-> "none", left |-> Unset, right |-> Unset]

\* Mutant: `right` decides alone, so that supplying both is accepted.
TResult_init_accepts_both(left, right) ==
    IF right # nothing
    THEN [self |-> [state |-> "ok", left |-> Unset, right |-> right],
          ret |-> RetUnit]
    ELSE IF left # nothing
    THEN [self |-> [state |-> "err", left |-> left, right |-> Unset],
          ret |-> RetUnit]
    ELSE [self |-> NoResult, ret |-> Raise("AssertionError")]

TResult_init(left, right) ==
    IF left = nothing /\ right # nothing
    THEN [self |-> [state |-> "ok", left |-> Unset, right |-> right],
          ret |-> RetUnit]
    ELSE IF left # nothing /\ right = nothing
    THEN [self |-> [state |-> "err", left |-> left, right |-> Unset],
          ret |-> RetUnit]
    ELSE [self |-> NoResult, ret |-> Raise("AssertionError")]
TResult_Ok(value) == TResult_init(nothing, value).self
TResult_Err(error) == TResult_init(error, nothing).self
TResult_repr(r) ==
    IF r.state = "ok" THEN Ret("Ok", NoKey, r.right) ELSE Ret("Err", NoKey, r.left)
TCallRes(h, v) ==
    IF h.name = "const" THEN h.val
    ELSE IF h.name = "ok_incr" THEN TResult_Ok(Apply("incr", v))
    ELSE TResult_Err(v)

TResult_is_ok(r) == Out(r, RetBool(r.state = "ok"), 0)

TResult_is_err(r) == Out(r, RetBool(r.state = "err"), 0)

TResult_map(r, op) ==
    IF r.state = "err"
    THEN LET n == TResult_Err(r.left)
         IN  Out(n, TResult_repr(n), 0)
    ELSE LET n == TResult_Ok(Call(op, r.right))
         IN  Out(n, TResult_repr(n), Calls(op))

TResult_map_or(r, default, f) ==
    IF r.state = "err"
    THEN Out(r, RetValue(default), 0)
    ELSE Out(r, RetValue(Call(f, r.right)), Calls(f))

TResult_map_or_else(r, default, f) ==
    IF r.state = "err"
    THEN Out(r, RetValue(Call(default, r.left)), Calls(default))
    ELSE Out(r, RetValue(Call(f, r.right)), Calls(f))

TResult_map_err(r, op) ==
    IF r.state = "ok"
    THEN LET n == TResult_Ok(r.right)
         IN  Out(n, TResult_repr(n), 0)
    ELSE LET n == TResult_Err(Call(op, r.left))
         IN  Out(n, TResult_repr(n), Calls(op))

TResult_and_(r, res) ==
    IF r.state = "ok"
    THEN Out(res, TResult_repr(res), 0)
    ELSE LET n == TResult_Err(r.left)
         IN  Out(n, TResult_repr(n), 0)

TResult_and_then(r, op) ==
    IF r.state = "err"
    THEN LET n == TResult_Err(r.left)
         IN  Out(n, TResult_repr(n), 0)
    ELSE LET n == TCallRes(op, r.right)
         IN  Out(n, TResult_repr(n), Calls(op))

TResult_or_(r, res) ==
    IF r.state = "ok"
    THEN LET n == TResult_Ok(r.right)
         IN  Out(n, TResult_repr(n), 0)
    ELSE Out(res, TResult_repr(res), 0)

TResult_or_else(r, op) ==
    IF r.state = "ok"
    THEN LET n == TResult_Ok(r.right)
         IN  Out(n, TResult_repr(n), 0)
    ELSE LET n == TCallRes(op, r.left)
         IN  Out(n, TResult_repr(n), Calls(op))

TResult_unwrap_or(r, default) ==
    IF r.state = "err"
    THEN Out(r, RetValue(default), 0)
    ELSE Out(r, RetValue(r.right), 0)

TResult_unwrap_or_else(r, op) ==
    IF r.state = "err"
    THEN Out(r, RetValue(Call(op, r.left)), Calls(op))
    ELSE Out(r, RetValue(r.right), 0)

TResult_expect(r, msg) ==
    IF r.state = "err"
    THEN Out(r, Ret("AssertionError", msg, r.left), 0)
    ELSE Out(r, RetValue(r.right), 0)

TResult_unwrap(r) ==
    IF r.state = "err"
    THEN Out(r, Ret("AssertionError", NoKey, r.left), 0)
    ELSE Out(r, RetValue(r.right), 0)

TResult_expect_err(r, msg) ==
    IF r.state = "ok"
    THEN Out(r, Ret("AssertionError", msg, r.right), 0)
    ELSE Out(r, RetValue(r.left), 0)

TResult_unwrap_err(r) ==
    IF r.state = "ok"
    THEN Out(r, Ret("AssertionError", NoKey, r.right), 0)
    ELSE Out(r, RetValue(r.left), 0)

result_value_attr(r) == IF r.state = "err" THEN "_left" ELSE "_right"
\* getattr on an object with __slots__: an unassigned slot raises.
getattr(r, attr) ==
    LET v == IF attr = "_left" THEN r.left ELSE r.right
    IN  IF v = Unset THEN Raise("AttributeError") ELSE RetValue(v)
\* dependent_ord(_result_value_attr): the generated __eq__. Both operands
\* are of the one class Result, and the attribute is chosen by `self`.
TResult_ordering_function(a, b) ==
    LET attr == result_value_attr(a)
        x == getattr(a, attr)
        y == getattr(b, attr)
    IN  IF IsRaise(x) THEN x
        ELSE IF IsRaise(y) THEN y
        ELSE RetBool(x.val = y.val)

\* ---------------------------------------- Option, methods that read
\* A method is the pair of its definitions in Some and in None_. What comes
\* back: the receiver after the call, the value returned, the number of
\* calls of caller-supplied callables, and whether an Option returned is
\* the receiver itself rather than another object.
OptOut(o, ret, calls, same) ==
    [self |-> o, ret |-> ret, calls |-> calls, same |-> same]

Option_expect(o, msg) ==
    IF o.cls = "Some" THEN OptOut(o, RetValue(o.value), 0, FALSE)
    ELSE OptOut(o, Ret("AssertionError", msg, NoVal), 0, FALSE)

\* Mutant: unwrap moves the value out and leaves None_ behind.
Option_unwrap_takes(o) ==
    IF o.cls = "Some" THEN OptOut(None_, RetValue(o.value), 0, FALSE)
    ELSE OptOut(o, Ret("AssertionError", UnwrapMsg, NoVal), 0, FALSE)

Option_unwrap(o) ==
    IF o.cls = "Some" THEN OptOut(o, RetValue(o.value), 0, FALSE)
    ELSE OptOut(o, Ret("AssertionError", UnwrapMsg, NoVal), 0, FALSE)

\* f is `lambda: fv`
Option_unwrap_or_else(o, fv) ==
    IF o.cls = "Some" THEN OptOut(o, RetValue(o.value), 0, FALSE)
    ELSE OptOut(o, RetValue(fv), 1, FALSE)

Option_unwrap_or(o, default) == Option_unwrap_or_else(o, default)

\* Mutant: f is invoked whatever the variant.
Option_map_eager(o, f) ==
    IF o.cls = "Some" THEN OptOut(o, AsRet(Some(Apply(f, o.value))), 1, FALSE)
    ELSE OptOut(o, AsRet(None_), 1, FALSE)

Option_map(o, f) ==
    IF o.cls = "Some" THEN OptOut(o, AsRet(Some(Apply(f, o.value))), 1, FALSE)
    ELSE OptOut(o, AsRet(None_), 0, FALSE)

\* default is `lambda: dv`
Option_map_or_else(o, dv, f) ==
    IF o.cls = "Some" THEN OptOut(o, RetValue(Apply(f, o.value)), 1, FALSE)
    ELSE OptOut(o, RetValue(dv), 1, FALSE)

Option_map_or(o, default, f) == Option_map_or_else(o, default, f)

\* Mutant: the error is returned whatever the variant.
Option_ok_or_else_always_err(o, ev) ==
    OptOut(o, PResult_repr(Err(ev)), 1, FALSE)

\* err is `lambda: ev`
Option_ok_or_else(o, ev) ==
    IF o.cls = "Some" THEN OptOut(o, PResult_repr(Ok(o.value)), 0, FALSE)
    ELSE OptOut(o, PResult_repr(Err(ev)), 1, FALSE)

Option_ok_or(o, err) == Option_ok_or_else(o, err)

\* list(o.iter()): the values the generator yields
Option_iter(o) == IF o.cls = "Some" THEN <<o.value>> ELSE <<>>

\* Callables that return an Option: some_incr is `lambda v: Some(v + 1)`,
\* none is `lambda v: None_()`.
OptFns == {"some_incr", "none"}

Option_and_then(o, f) ==
    IF o.cls = "Some"
    THEN OptOut(o, AsRet(IF f = "some_incr" THEN Some(Apply("incr", o.value))
                         ELSE None_), 1, FALSE)
    ELSE OptOut(o, AsRet(None_), 0, FALSE)

\* and_(optb) is _and_then(lambda _: optb): optb itself comes back.
Option_and_(o, optb) ==
    IF o.cls = "Some" THEN OptOut(o, AsRet(optb), 0, FALSE)
    ELSE OptOut(o, AsRet(None_), 0, FALSE)

\* The predicate is one of Preds, applied to the value.
Option_filter(o, predicate) ==
    IF o.cls = "Some"
    THEN OptOut(o, AsRet(IF ~ApplyPred(predicate, o.value) THEN None_
                         ELSE Some(o.value)), 1, FALSE)
    ELSE OptOut(o, AsRet(None_), 0, FALSE)

\* Mutant: Some hands back itself instead of Some(self._value).
Option_or_else_returns_self(o, fo) ==
    IF o.cls = "Some" THEN OptOut(o, AsRet(o), 0, TRUE)
    ELSE OptOut(o, AsRet(fo), 1, FALSE)

\* f is `lambda: fo`
Option_or_else(o, fo) ==
    IF o.cls = "Some" THEN OptOut(o, AsRet(Some(o.value)), 0, FALSE)
    ELSE OptOut(o, AsRet(fo), 1, FALSE)

Option_or_(o, optb) == Option_or_else(o, optb)

Option_xor(o, optb) ==
    IF o.cls = "Some"
    THEN OptOut(o, AsRet(IF Option_is_none(optb) THEN Some(o.value) ELSE None_),
                0, FALSE)
    ELSE OptOut(o, IF Option_is_some(optb) THEN AsRet(Some(Option_unwrap(optb).ret.val))
                   ELSE AsRet(None_), 0, FALSE)

\* zip(other) on Some is other.map(lambda v: (self._value, v)).
Option_zip(o, other) ==
    IF o.cls = "Some"
    THEN OptOut(o, IF other.cls = "Some" THEN RetSome(<<o.value, other.value>>)
                   ELSE AsRet(None_), 0, FALSE)
    ELSE OptOut(o, AsRet(None_), 0, FALSE)

\* Mutant: every falsy value is taken for None (`if not opt`).
Option_from_optional_falsy(x) == IF x = null \/ x = 0 THEN None_ ELSE Some(x)

Option_from_optional(x) == IF x = null THEN None_ ELSE Some(x)

Option_into_optional(o) ==
    IF o.cls = "Some" THEN OptOut(o, RetValue(o.value), 0, FALSE)
    ELSE OptOut(o, RetValue(null), 0, FALSE)

\* Result.ok() and Result.err() of the class draft
PResult_ok(r) == IF r.cls = "Ok" THEN Some(r.value) ELSE None_
PResult_err(r) == IF r.cls = "Ok" THEN None_ ELSE Some(r.value)

\* ------------------------------------------------------------- actions
\* The last call: the method, the receiver (an Option or a key), the
\* callable and the value passed, what came back, and how many times the
\* callable was invoked.
\* `pred` names a predicate passed, `log` lists the keys a callable was
\* invoked on (or the keys of the Refs yielded), `items` is a sequence of
\* <<key, value>> pairs passed or returned, `alt` is what the tagged draft
\* of Result returned for the same call.
LastAll(op, id, fn, pred, arg, ret, alt, calls, log, items) ==
    [op |-> op, id |-> id, fn |-> fn, pred |-> pred, arg |-> arg, ret |-> ret,
     alt |-> alt, calls |-> calls, log |-> log, items |-> items]
LastFn(op, id, fn, arg, ret, calls) ==
    LastAll(op, id, fn, "", arg, ret, RetUnit, calls, <<>>, <<>>)
Last(op, id, arg, ret, calls) == LastFn(op, id, "", arg, ret, calls)

OptionStates == {Some(v) : v \in Values} \cup {None_}

MapUnchanged == UNCHANGED <<dict, entry, refs>>
ResultUnchanged == UNCHANGED <<resP, resT>>
NonOptionUnchanged == MapUnchanged /\ ResultUnchanged

\* x = Some(v) / x = None_(): a name is bound to a freshly constructed Option.
Construct(i, o) ==
    /\ opt' = [opt EXCEPT ![i] = o]
    /\ optRef' = [optRef EXCEPT ![i] = FALSE]
    /\ last' = Last("construct", i, o.value, RetUnit, 0)
    /\ NonOptionUnchanged

Take(i) ==
    LET r == Option_take(opt[i])
    IN  /\ opt' = [opt EXCEPT ![i] = r.self]
        /\ last' = Last("take", i, NoVal, r.ret, 0)
        /\ UNCHANGED optRef
        /\ NonOptionUnchanged

Replace(i, v) ==
    LET r == Option_replace(opt[i], v)
    IN  /\ opt' = [opt EXCEPT ![i] = r.self]
        /\ last' = Last("replace", i, v, r.ret, 0)
        /\ UNCHANGED optRef
        /\ NonOptionUnchanged

GetOrInsertWith(i, fv) ==
    LET r == Option_get_or_insert_with(opt[i], fv)
    IN  /\ opt' = [opt EXCEPT ![i] = r.self]
        /\ optRef' = [optRef EXCEPT ![i] = TRUE]
        /\ last' = Last("get_or_insert_with", i, fv, r.ret, r.calls)
        /\ NonOptionUnchanged

GetOrInsert(i, v) ==
    LET r == Option_get_or_insert(opt[i], v)
    IN  /\ opt' = [opt EXCEPT ![i] = r.self]
        /\ optRef' = [optRef EXCEPT ![i] = TRUE]
        /\ last' = Last("get_or_insert", i, v, r.ret, r.calls)
        /\ NonOptionUnchanged

\* Ref.get() on a Ref returned earlier by opt[i].get_or_insert*.
OptRefGet(i) ==
    /\ optRef[i]
    /\ last' = Last("ref.get", i, NoVal, get_value(opt[i]), 0)
    /\ UNCHANGED <<opt, optRef>>
    /\ NonOptionUnchanged

\* Ref.set(w) on a Ref returned earlier by opt[i].get_or_insert*.
OptRefSet(i, w) ==
    /\ optRef[i]
    /\ opt' = [opt EXCEPT ![i] = set_value(opt[i], w)]
    /\ last' = Last("ref.set", i, w, RetUnit, 0)
    /\ UNCHANGED optRef
    /\ NonOptionUnchanged

\* Ref.modify(g) on a Ref returned earlier by opt[i].get_or_insert*.
OptRefModify(i, g) ==
    LET r == OptRef_modify(opt[i], g)
    IN  /\ optRef[i]
        /\ opt' = [opt EXCEPT ![i] = r.self]
        /\ last' = LastFn("ref.modify", i, g, NoVal, r.ret, r.calls)
        /\ UNCHANGED optRef
        /\ NonOptionUnchanged

IsSome(i) ==
    /\ last' = Last("is_some", i, NoVal, RetBool(Option_is_some(opt[i])), 0)
    /\ UNCHANGED <<opt, optRef>>
    /\ NonOptionUnchanged

\* opt[i] == opt[j]
Eq(i, j) ==
    LET r == Option_eq(opt[i], opt[j], i = j)
    IN  /\ last' = Last("eq", i, j, Ret(r, NoKey, NoVal), 0)
        /\ UNCHANGED <<opt, optRef>>
        /\ NonOptionUnchanged

NextOption ==
    \/ \E i \in OptIds, o \in OptionStates : Construct(i, o)
    \/ \E i \in OptIds : Take(i)
    \/ \E i \in OptIds, v \in Values : Replace(i, v)
    \/ \E i \in OptIds, v \in Values : GetOrInsertWith(i, v)
    \/ \E i \in OptIds, v \in Values : GetOrInsert(i, v)
    \/ \E i \in OptIds : OptRefGet(i)
    \/ \E i \in OptIds, w \in Values : OptRefSet(i, w)
    \/ \E i \in OptIds, g \in Fns : OptRefModify(i, g)
    \/ \E i \in OptIds : IsSome(i)
    \/ \E i, j \in OptIds : Eq(i, j)

Init ==
    /\ opt = [i \in OptIds |-> None_]
    /\ optRef = [i \in OptIds |-> FALSE]
    /\ dict = <<>>
    /\ entry = NoEntry
    /\ refs = {}
    /\ resP = Ok(0)
    /\ resT = TResult_Ok(0)
    /\ last = Last("init", NoKey, NoVal, RetUnit, 0)

SpecOption == Init /\ [][NextOption]_vars

\* ------------------------------------------------------ HashMap actions
\* The caller keeps every Ref it is handed.
HoldRef(held, ret) ==
    IF ret.kind \in {"Ref", "SomeRef"} THEN held \cup {ret.key} ELSE held

OptionUnchanged == UNCHANGED <<opt, optRef>>
NonMapUnchanged == OptionUnchanged /\ ResultUnchanged

Insert(k, v) ==
    LET r == HashMap_insert(dict, k, v)
    IN  /\ dict' = r.dict
        /\ last' = Last("insert", k, v, r.ret, 0)
        /\ UNCHANGED <<entry, refs>>
        /\ NonMapUnchanged

Remove(k) ==
    LET r == HashMap_remove(dict, k)
    IN  /\ dict' = r.dict
        /\ last' = Last("remove", k, NoVal, r.ret, 0)
        /\ UNCHANGED <<entry, refs>>
        /\ NonMapUnchanged

RemoveEntry(k) ==
    LET r == HashMap_remove_entry(dict, k)
    IN  /\ dict' = r.dict
        /\ last' = Last("remove_entry", k, NoVal, r.ret, 0)
        /\ UNCHANGED <<entry, refs>>
        /\ NonMapUnchanged

Get(k) ==
    /\ last' = Last("get", k, NoVal, HashMap_get(dict, k), 0)
    /\ UNCHANGED <<dict, entry, refs>>
    /\ NonMapUnchanged

\* e = m.entry(k): the entry is kept by the caller.
GetEntry(k) ==
    LET e == HashMap_entry(dict, k)
    IN  /\ entry' = e
        /\ last' = Last("entry", k, NoVal, RetEntry(e.kind, e.key), 0)
        /\ UNCHANGED <<dict, refs>>
        /\ NonMapUnchanged

\* e.or_insert_with(lambda: fv) on the entry kept by the caller.
HeldOrInsertWith(fv) ==
    LET r == Entry_or_insert_with(entry, dict, fv)
    IN  /\ entry # NoEntry
        /\ dict' = r.dict
        /\ last' = Last("e.or_insert_with", entry.key, fv, r.ret, r.calls)
        /\ refs' = HoldRef(refs, last'.ret)
        /\ UNCHANGED entry
        /\ NonMapUnchanged

\* m.entry(k).or_insert_with(lambda: fv)
ChainOrInsertWith(k, fv) ==
    LET r == Entry_or_insert_with(HashMap_entry(dict, k), dict, fv)
    IN  /\ dict' = r.dict
        /\ last' = Last("entry.or_insert_with", k, fv, r.ret, r.calls)
        /\ refs' = HoldRef(refs, last'.ret)
        /\ UNCHANGED entry
        /\ NonMapUnchanged

\* m.entry(k).or_insert_with_key(kf)
ChainOrInsertWithKey(k, kf) ==
    LET r == Entry_or_insert_with_key(HashMap_entry(dict, k), dict, kf)
    IN  /\ dict' = r.dict
        /\ last' = LastFn("entry.or_insert_with_key", k, kf, NoVal, r.ret,
                          r.calls)
        /\ refs' = HoldRef(refs, last'.ret)
        /\ UNCHANGED entry
        /\ NonMapUnchanged

\* m.entry(k).and_modify(lambda ref: ref.modify(g)).or_insert(d)
\* `calls` counts the invocations of the and_modify callable.
ChainAndModifyOrInsert(k, g, d) ==
    LET e == HashMap_entry(dict, k)
        m == Entry_and_modify(e, dict, g)
        r == Entry_or_insert(Entry(m.ret.kind, m.ret.key), m.dict, d)
    IN  /\ dict' = IF IsRaise(m.ret) THEN m.dict ELSE r.dict
        /\ last' = LastFn("entry.and_modify.or_insert", k, g, d,
                          IF IsRaise(m.ret) THEN m.ret ELSE r.ret, m.calls)
        /\ refs' = HoldRef(refs, last'.ret)
        /\ UNCHANGED entry
        /\ NonMapUnchanged

\* e.or_insert(d) on the entry kept by the caller.
HeldOrInsert(d) ==
    LET r == Entry_or_insert(entry, dict, d)
    IN  /\ entry # NoEntry
        /\ dict' = r.dict
        /\ last' = Last("e.or_insert", entry.key, d, r.ret, r.calls)
        /\ refs' = HoldRef(refs, last'.ret)
        /\ UNCHANGED entry
        /\ NonMapUnchanged

\* e.insert(v) on the entry kept by the caller.
HeldInsert(v) ==
    LET r == Entry_insert(entry, dict, v)
    IN  /\ entry # NoEntry
        /\ dict' = r.dict
        /\ last' = Last("e.insert", entry.key, v, r.ret, r.calls)
        /\ refs' = HoldRef(refs, last'.ret)
        /\ UNCHANGED entry
        /\ NonMapUnchanged

\* r = m.get_mut(k); the Ref, if any, is kept by the caller.
GetMut(k) ==
    /\ last' = Last("get_mut", k, NoVal, HashMap_get_mut(dict, k), 0)
    /\ refs' = HoldRef(refs, last'.ret)
    /\ UNCHANGED <<dict, entry>>
    /\ NonMapUnchanged

\* Ref.get() on a Ref for key k handed out earlier by the map.
MapRefGet(k) ==
    /\ k \in refs
    /\ last' = Last("mapref.get", k, NoVal, ref_get(dict, k), 0)
    /\ UNCHANGED <<dict, entry, refs>>
    /\ NonMapUnchanged

\* Ref.set(w) on a Ref for key k handed out earlier by the map.
MapRefSet(k, w) ==
    /\ k \in refs
    /\ dict' = ref_set(dict, k, w)
    /\ last' = Last("mapref.set", k, w, RetUnit, 0)
    /\ UNCHANGED <<entry, refs>>
    /\ NonMapUnchanged

\* Ref.modify(g) on a Ref for key k handed out earlier by the map.
MapRefModify(k, g) ==
    LET r == Ref_modify(dict, k, g)
    IN  /\ k \in refs
        /\ dict' = r.dict
        /\ last' = LastFn("mapref.modify", k, g, NoVal, r.ret, r.calls)
        /\ UNCHANGED <<entry, refs>>
        /\ NonMapUnchanged

NextMap ==
    \/ \E d \in Values : HeldOrInsert(d)
    \/ \E v \in Values : HeldInsert(v)
    \/ \E k \in Keys : GetMut(k)
    \/ \E k \in Keys : MapRefGet(k)
    \/ \E k \in Keys, w \in Values : MapRefSet(k, w)
    \/ \E k \in Keys, g \in Fns : MapRefModify(k, g)
    \/ \E k \in Keys, v \in Values : Insert(k, v)
    \/ \E k \in Keys : Remove(k)
    \/ \E k \in Keys : RemoveEntry(k)
    \/ \E k \in Keys : Get(k)
    \/ \E k \in Keys : GetEntry(k)
    \/ \E fv \in Values : HeldOrInsertWith(fv)
    \/ \E k \in Keys, fv \in Values : ChainOrInsertWith(k, fv)
    \/ \E k \in Keys, kf \in KeyFns : ChainOrInsertWithKey(k, kf)
    \/ \E k \in Keys, g \in Fns, d \in Values : ChainAndModifyOrInsert(k, g, d)

SpecMap == Init /\ [][NextMap]_vars


\* ------------------------------------------------- HashMap, bulk actions
\* Sequences of at most MaxPairs <<key, value>> pairs.
PairSeqs == UNION {[1..n -> Keys \X Values] : n \in 0..MaxPairs}

\* m.retain(f) with f = the predicate (p, g)
Retain(p, g) ==
    LET r == HashMap_retain(dict, p, g)
    IN  /\ dict' = r.dict
        /\ last' = LastAll("retain", NoKey, g, p, NoVal, r.ret, RetUnit,
                           Len(r.log), r.log, <<>>)
        /\ UNCHANGED <<entry, refs>>
        /\ NonMapUnchanged

Drain ==
    LET r == HashMap_drain(dict)
    IN  /\ dict' = r.dict
        /\ last' = LastAll("drain", NoKey, "", "", NoVal, r.ret, RetUnit, 0,
                           <<>>, r.items)
        /\ UNCHANGED <<entry, refs>>
        /\ NonMapUnchanged

Clear ==
    /\ dict' = HashMap_clear(dict).dict
    /\ last' = Last("clear", NoKey, NoVal, RetUnit, 0)
    /\ UNCHANGED <<entry, refs>>
    /\ NonMapUnchanged

Extend(pairs) ==
    LET r == HashMap_extend(dict, pairs)
    IN  /\ dict' = r.dict
        /\ last' = LastAll("extend", NoKey, "", "", NoVal, r.ret, RetUnit, 0,
                           <<>>, pairs)
        /\ UNCHANGED <<entry, refs>>
        /\ NonMapUnchanged

\* m = HashMap.from_iter(pairs): the name is bound to a new map.
FromIter(pairs) ==
    LET r == HashMap_from_iter(pairs)
    IN  /\ dict' = r.dict
        /\ entry' = NoEntry
        /\ refs' = {}
        /\ last' = LastAll("from_iter", NoKey, "", "", NoVal, r.ret, RetUnit, 0,
                           <<>>, pairs)
        /\ NonMapUnchanged

\* for val in m.values_mut(): val.modify(g)
ValuesMutModifyAll(g) ==
    LET refKeys == HashMap_values_mut(dict)
        r == modify_each(dict, refKeys, g)
    IN  /\ dict' = r.dict
        /\ last' = LastAll("values_mut.modify", NoKey, g, "", NoVal, r.ret,
                           RetUnit, Len(refKeys), refKeys, <<>>)
        /\ UNCHANGED <<entry, refs>>
        /\ NonMapUnchanged

\* for key, val in m.iter_mut(): val.modify(g)
IterMutModifyAll(g) ==
    LET yielded == HashMap_iter_mut(dict)
        refKeys == [i \in DOMAIN yielded |-> yielded[i][2]]
        r == modify_each(dict, refKeys, g)
    IN  /\ dict' = r.dict
        /\ last' = LastAll("iter_mut.modify", NoKey, g, "", NoVal, r.ret,
                           RetUnit, Len(refKeys), refKeys, yielded)
        /\ UNCHANGED <<entry, refs>>
        /\ NonMapUnchanged

NextBulk ==
    \/ \E k \in Keys, v \in Values : Insert(k, v)
    \/ \E k \in Keys : Remove(k)
    \/ \E p \in Preds, g \in Fns \cup {"none"} : Retain(p, g)
    \/ Drain
    \/ Clear
    \/ \E pairs \in PairSeqs : Extend(pairs)
    \/ \E pairs \in PairSeqs : FromIter(pairs)
    \/ \E g \in Fns : ValuesMutModifyAll(g)
    \/ \E g \in Fns : IterMutModifyAll(g)

SpecBulk == Init /\ [][NextBulk]_vars

\* Refs into one Option and into the map, used next to the operations that
\* create and remove the slots they point to.
NextRef ==
    \/ \E v \in Values : GetOrInsert(1, v)
    \/ Take(1)
    \/ OptRefGet(1)
    \/ \E w \in Values : OptRefSet(1, w)
    \/ \E g \in Fns : OptRefModify(1, g)
    \/ \E k \in Keys, v \in Values : Insert(k, v)
    \/ \E k \in Keys : Remove(k)
    \/ \E k \in Keys : GetMut(k)
    \/ \E k \in Keys : MapRefGet(k)
    \/ \E k \in Keys, w \in Values : MapRefSet(k, w)
    \/ \E k \in Keys, g \in Fns : MapRefModify(k, g)

SpecRef == Init /\ [][NextRef]_vars


\* ------------------------------------------------------- Result actions
\* Every action makes the same call on the value in both drafts; a Result
\* that comes back is bound to the name (r = r.map(f)).
PMake(kind, v) == IF kind = "Ok" THEN Ok(v) ELSE Err(v)

TMake(kind, v) == IF kind = "Ok" THEN TResult_Ok(v) ELSE TResult_Err(v)

ResStep(op, fn, arg, p, t) ==
    /\ resP' = p.res
    /\ resT' = t.res
    /\ last' = LastAll(op, NoKey, fn, "", arg, p.ret, t.ret, p.calls, <<>>, <<>>)
    /\ OptionUnchanged
    /\ MapUnchanged

\* r = Ok(v) / r = Err(e)
ResNew(kind, v) ==
    LET p == PMake(kind, v)
        t == TMake(kind, v)
    IN  ResStep(kind, "", v, Out(p, PResult_repr(p), 0), Out(t, TResult_repr(t), 0))

\* r = Result(left=l, right=r) in the tagged draft; when it succeeds the
\* class draft's value is the variant it stands for.
ResInit(left, right) ==
    LET t == TResult_init(left, right)
    IN  /\ resT' = IF IsRaise(t.ret) THEN resT ELSE t.self
        /\ resP' = IF IsRaise(t.ret) THEN resP
                   ELSE IF t.self.state = "ok" THEN Ok(right) ELSE Err(left)
        /\ last' = LastAll("Result", NoKey, "", "", NoVal, t.ret, t.ret, 0, <<>>,
                           <<left, right>>)
        /\ OptionUnchanged
        /\ MapUnchanged

ResIsOk ==
    ResStep("is_ok", "", NoVal,
            PResult_is_ok(resP),
            TResult_is_ok(resT))

ResIsErr ==
    ResStep("is_err", "", NoVal,
            PResult_is_err(resP),
            TResult_is_err(resT))

ResMap(g) ==
    ResStep("map", g, NoVal,
            PResult_map(resP, Fn(g)),
            TResult_map(resT, Fn(g)))

ResMapErr(g) ==
    ResStep("map_err", g, NoVal,
            PResult_map_err(resP, Fn(g)),
            TResult_map_err(resT, Fn(g)))

ResMapOr(d, g) ==
    ResStep("map_or", g, d,
            PResult_map_or(resP, d, Fn(g)),
            TResult_map_or(resT, d, Fn(g)))

ResMapOrElse(h, g) ==
    ResStep("map_or_else", g, NoVal,
            PResult_map_or_else(resP, Fn(h), Fn(g)),
            TResult_map_or_else(resT, Fn(h), Fn(g)))

ResAnd(kind, v) ==
    ResStep("and_", kind, v,
            PResult_and_(resP, PMake(kind, v)),
            TResult_and_(resT, TMake(kind, v)))

ResAndThen(f) ==
    ResStep("and_then", f, NoVal,
            PResult_and_then(resP, Fn(f)),
            TResult_and_then(resT, Fn(f)))

ResOr(kind, v) ==
    ResStep("or_", kind, v,
            PResult_or_(resP, PMake(kind, v)),
            TResult_or_(resT, TMake(kind, v)))

ResOrElse(f) ==
    ResStep("or_else", f, NoVal,
            PResult_or_else(resP, Fn(f)),
            TResult_or_else(resT, Fn(f)))

ResUnwrapOr(d) ==
    ResStep("unwrap_or", "", d,
            PResult_unwrap_or(resP, d),
            TResult_unwrap_or(resT, d))

ResUnwrapOrElse(g) ==
    ResStep("unwrap_or_else", g, NoVal,
            PResult_unwrap_or_else(resP, Fn(g)),
            TResult_unwrap_or_else(resT, Fn(g)))

ResUnwrap ==
    ResStep("unwrap", "", NoVal,
            PResult_unwrap(resP),
            TResult_unwrap(resT))

ResUnwrapErr ==
    ResStep("unwrap_err", "", NoVal,
            PResult_unwrap_err(resP),
            TResult_unwrap_err(resT))

ResExpect(msg) ==
    ResStep("expect", "", msg,
            PResult_expect(resP, msg),
            TResult_expect(resT, msg))

ResExpectErr(msg) ==
    ResStep("expect_err", "", msg,
            PResult_expect_err(resP, msg),
            TResult_expect_err(resT, msg))

\* r == Ok(v) / r == Err(e), the other operand a second object
ResEq(kind, v) ==
    ResStep("==", kind, v,
            Out(resP, PResult_eq(resP, PMake(kind, v), FALSE), 0),
            Out(resT, TResult_ordering_function(resT, TMake(kind, v)), 0))

\* r == r
ResEqSelf ==
    ResStep("==self", "", NoVal,
            Out(resP, PResult_eq(resP, resP, TRUE), 0),
            Out(resT, TResult_ordering_function(resT, resT), 0))

NextResult ==
    \/ \E kind \in {"Ok", "Err"}, v \in Values : ResNew(kind, v)
    \/ \E l, r \in Values \cup {nothing} : ResInit(l, r)
    \/ ResIsOk
    \/ ResIsErr
    \/ \E g \in Fns : ResMap(g)
    \/ \E g \in Fns : ResMapErr(g)
    \/ \E d \in Values, g \in Fns : ResMapOr(d, g)
    \/ \E h \in Fns, g \in Fns : ResMapOrElse(h, g)
    \/ \E kind \in {"Ok", "Err"}, v \in Values : ResAnd(kind, v)
    \/ \E f \in ResFns : ResAndThen(f)
    \/ \E kind \in {"Ok", "Err"}, v \in Values : ResOr(kind, v)
    \/ \E f \in ResFns : ResOrElse(f)
    \/ \E d \in Values : ResUnwrapOr(d)
    \/ \E g \in Fns : ResUnwrapOrElse(g)
    \/ ResUnwrap
    \/ ResUnwrapErr
    \/ \E msg \in Msgs : ResExpect(msg)
    \/ \E msg \in Msgs : ResExpectErr(msg)
    \/ \E kind \in {"Ok", "Err"}, v \in Values : ResEq(kind, v)
    \/ ResEqSelf

SpecResult == Init /\ [][NextResult]_vars

\* ------------------------------------- Option, actions of the readers
\* y = x.method(...): the call on Option i; an Option that comes back is
\* recorded with the id of the Option it is, NoKey for a new object.
OptStep(op, i, fn, arg, r) ==
    /\ opt' = [opt EXCEPT ![i] = r.self]
    /\ last' = LastFn(op, i, fn, arg,
                      IF r.same THEN [r.ret EXCEPT !.key = i] ELSE r.ret, r.calls)
    /\ UNCHANGED optRef
    /\ NonOptionUnchanged

Expect(i, msg) == OptStep("o.expect", i, "", msg, Option_expect(opt[i], msg))

Unwrap(i) == OptStep("o.unwrap", i, "", NoVal, Option_unwrap(opt[i]))

UnwrapOr(i, d) == OptStep("o.unwrap_or", i, "", d, Option_unwrap_or(opt[i], d))

UnwrapOrElse(i, fv) == OptStep("o.unwrap_or_else", i, "", fv, Option_unwrap_or_else(opt[i], fv))

Map(i, g) == OptStep("o.map", i, g, NoVal, Option_map(opt[i], g))

MapOr(i, d, g) == OptStep("o.map_or", i, g, d, Option_map_or(opt[i], d, g))

MapOrElse(i, dv, g) == OptStep("o.map_or_else", i, g, dv, Option_map_or_else(opt[i], dv, g))

AndThen(i, f) == OptStep("o.and_then", i, f, NoVal, Option_and_then(opt[i], f))

And(i, optb) == OptStep("o.and_", i, optb.cls, optb.value, Option_and_(opt[i], optb))

Filter(i, p) == OptStep("o.filter", i, p, NoVal, Option_filter(opt[i], p))

Or(i, optb) == OptStep("o.or_", i, optb.cls, optb.value, Option_or_(opt[i], optb))

OrElse(i, fo) == OptStep("o.or_else", i, fo.cls, fo.value, Option_or_else(opt[i], fo))

Xor(i, optb) == OptStep("o.xor", i, optb.cls, optb.value, Option_xor(opt[i], optb))

Zip(i, other) == OptStep("o.zip", i, other.cls, other.value, Option_zip(opt[i], other))

IntoOptional(i) == OptStep("o.into_optional", i, "", NoVal, Option_into_optional(opt[i]))

\* list(x.iter())
Iter(i) ==
    /\ last' = LastAll("o.iter", i, "", "", NoVal, RetUnit, RetUnit, 0, <<>>,
                       Option_iter(opt[i]))
    /\ OptionUnchanged
    /\ NonOptionUnchanged

\* x = Option.from_optional(v): the name is bound to the Option built.
FromOptional(i, x) ==
    /\ opt' = [opt EXCEPT ![i] = Option_from_optional(x)]
    /\ optRef' = [optRef EXCEPT ![i] = FALSE]
    /\ last' = Last("from_optional", i, x, RetUnit, 0)
    /\ NonOptionUnchanged

\* Option.from_optional(x).into_optional()
FromIntoOptional(x) ==
    /\ last' = Last("from_optional.into_optional", NoKey, x,
                    Option_into_optional(Option_from_optional(x)).ret, 0)
    /\ OptionUnchanged
    /\ NonOptionUnchanged

IsNone(i) ==
    /\ last' = Last("is_none", i, NoVal, RetBool(Option_is_none(opt[i])), 0)
    /\ OptionUnchanged
    /\ NonOptionUnchanged

\* r = x.ok_or(e) / r = x.ok_or_else(lambda: ev): the Result is bound to r.
OkOrStep(op, i, e, r) ==
    /\ resP' = PMake(r.ret.kind, r.ret.val)
    /\ resT' = TMake(r.ret.kind, r.ret.val)
    /\ opt' = [opt EXCEPT ![i] = r.self]
    /\ last' = Last(op, i, e, r.ret, r.calls)
    /\ UNCHANGED optRef
    /\ MapUnchanged

OkOr(i, e) == OkOrStep("o.ok_or", i, e, Option_ok_or(opt[i], e))

OkOrElse(i, ev) == OkOrStep("o.ok_or_else", i, ev, Option_ok_or_else(opt[i], ev))

\* r.ok() / r.err() on the Result r of the class draft
ResOk ==
    /\ last' = Last("r.ok", NoKey, NoVal, AsRet(PResult_ok(resP)), 0)
    /\ OptionUnchanged
    /\ NonOptionUnchanged

ResErr ==
    /\ last' = Last("r.err", NoKey, NoVal, AsRet(PResult_err(resP)), 0)
    /\ OptionUnchanged
    /\ NonOptionUnchanged

\* The readers of Option 1 next to the operations that change it in place.
NextReaders ==
    \/ \E o \in OptionStates : Construct(1, o)
    \/ Take(1)
    \/ \E v \in Values : Replace(1, v)
    \/ \E v \in Values : GetOrInsert(1, v)
    \/ \E w \in Values : OptRefSet(1, w)
    \/ IsSome(1)
    \/ IsNone(1)
    \/ \E x \in Values \cup {null} : FromIntoOptional(x)
    \/ \E msg \in Msgs : Expect(1, msg)
    \/ Unwrap(1)
    \/ \E d \in Values : UnwrapOr(1, d)
    \/ \E fv \in Values : UnwrapOrElse(1, fv)
    \/ \E g \in Fns : Map(1, g)
    \/ \E d \in Values, g \in Fns : MapOr(1, d, g)
    \/ \E dv \in Values, g \in Fns : MapOrElse(1, dv, g)
    \/ \E f \in OptFns : AndThen(1, f)
    \/ \E optb \in OptionStates : And(1, optb)
    \/ \E p \in Preds : Filter(1, p)
    \/ \E optb \in OptionStates : Or(1, optb)
    \/ \E fo \in OptionStates : OrElse(1, fo)
    \/ \E optb \in OptionStates : Xor(1, optb)
    \/ \E other \in OptionStates : Zip(1, other)
    \/ IntoOptional(1)
    \/ Iter(1)
    \/ \E x \in Values \cup {null} : FromOptional(1, x)
    \/ \E e \in Values : OkOr(1, e)
    \/ \E ev \in Values : OkOrElse(1, ev)
    \/ ResOk
    \/ ResErr

SpecReaders == Init /\ [][NextReaders]_vars


\* ------------------------------------------- entries kept by the caller
\* e.or_insert_with_key(kf) on the entry kept by the caller.
HeldOrInsertWithKey(kf) ==
    LET r == Entry_or_insert_with_key(entry, dict, kf)
    IN  /\ entry # NoEntry
        /\ dict' = r.dict
        /\ last' = LastFn("e.or_insert_with_key", entry.key, kf, NoVal, r.ret,
                          r.calls)
        /\ refs' = HoldRef(refs, last'.ret)
        /\ UNCHANGED entry
        /\ NonMapUnchanged

\* One of the methods that only an OccupiedEntry has, on the entry kept by
\* the caller.
HeldStep(op, r) ==
    /\ entry.kind = "Occupied"
    /\ dict' = r.dict
    /\ last' = Last(op, entry.key, NoVal, r.ret, r.calls)
    /\ UNCHANGED <<entry, refs>>
    /\ NonMapUnchanged

HeldGet == HeldStep("e.get", OccupiedEntry_get(dict, entry.key))

HeldRemove == HeldStep("e.remove", OccupiedEntry_remove(dict, entry.key))

HeldRemoveEntry ==
    HeldStep("e.remove_entry", OccupiedEntry_remove_entry(dict, entry.key))

\* m.retain(lambda k, ref: (m.remove(k + 1), p(k))[1])
RetainRemoving(p) ==
    LET r == HashMap_retain(dict, p, "remove_next")
    IN  /\ dict' = r.dict
        /\ last' = LastAll("retain.removing", NoKey, "remove_next", p, NoVal,
                           r.ret, RetUnit, Len(r.log), r.log, <<>>)
        /\ UNCHANGED <<entry, refs>>
        /\ NonMapUnchanged

NextEntry ==
    \/ \E k \in Keys, v \in Values : Insert(k, v)
    \/ \E k \in Keys : Remove(k)
    \/ \E k \in Keys : GetEntry(k)
    \/ \E d \in Values : HeldOrInsert(d)
    \/ \E fv \in Values : HeldOrInsertWith(fv)
    \/ \E kf \in KeyFns : HeldOrInsertWithKey(kf)
    \/ \E v \in Values : HeldInsert(v)
    \/ HeldGet
    \/ HeldRemove
    \/ HeldRemoveEntry
    \/ \E k \in Keys : GetMut(k)
    \/ \E k \in Keys : MapRefGet(k)
    \/ \E k \in Keys, w \in Values : MapRefSet(k, w)
    \/ \E p \in Preds : RetainRemoving(p)

SpecEntry == Init /\ [][NextEntry]_vars

\* ------------------------------------------------------ Option claims

\* C1: after any sequence of take, replace, get_or_insert(_with) and of
\* get/set on a Ref returned by get_or_insert*, every Option is either Some
\* with a stored payload or None_ with no stored payload: is_some() holds
\* iff the `_value` slot holds a payload.
C1_TagPayloadConsistent ==
    \A i \in OptIds : Option_is_some(opt[i]) <=> (opt[i].value # Unset)

\* C2: take() on Some(v) returns Some(v) and leaves the same object None_;
\* take() on None_ returns None_ and leaves it None_.
C2_Take ==
    [][last'.op = "take" =>
        LET i == last'.id
        IN  /\ Option_is_some(opt[i]) =>
                /\ last'.ret = RetSome(opt[i].value)
                /\ Option_is_none(opt'[i])
            /\ Option_is_none(opt[i]) =>
                /\ last'.ret = RetNone
                /\ Option_is_none(opt'[i])]_vars

C2_Witness ==
    /\ last.op = "take"
    /\ last.ret.kind = "Some"
    /\ Option_is_none(opt[last.id])

\* C3: replace(v2) on Some(v1) returns Some(v1), on None_ returns None_;
\* either way the Option is Some(v2) afterwards.
C3_Replace ==
    [][last'.op = "replace" =>
        LET i == last'.id
            v2 == last'.arg
        IN  /\ opt'[i] = Some(v2)
            /\ Option_is_some(opt[i]) => last'.ret = RetSome(opt[i].value)
            /\ Option_is_none(opt[i]) => last'.ret = RetNone]_vars

C3_Witness ==
    /\ last.op = "replace"
    /\ last.ret.kind = "None_"
    /\ opt[last.id] = Some(last.arg)

\* C4: get_or_insert_with(f) on None_ invokes f exactly once, turns the
\* Option into Some(f()) and returns a Ref that reads that payload and whose
\* set(w) makes the Option Some(w); on Some(v) f is not invoked, the payload
\* stays v and the Ref reads it.
C4_GetOrInsertWith ==
    [][last'.op = "get_or_insert_with" =>
        LET i == last'.id
            fv == last'.arg
        IN  /\ last'.ret.kind = "Ref"
            /\ optRef'[i]
            /\ \A w \in Values : set_value(opt'[i], w) = Some(w)
            /\ Option_is_none(opt[i]) =>
                /\ last'.calls = 1
                /\ opt'[i] = Some(fv)
                /\ get_value(opt'[i]) = RetValue(fv)
            /\ Option_is_some(opt[i]) =>
                /\ last'.calls = 0
                /\ opt'[i] = Some(opt[i].value)
                /\ get_value(opt'[i]) = RetValue(opt[i].value)]_vars

C4_Witness ==
    /\ last.op = "get_or_insert_with"
    /\ last.calls = 1
    /\ opt[last.id] = Some(last.arg)
    /\ optRef[last.id]

\* C5: a == b is true iff a and b are the same variant and, when both are
\* Some, their payloads are equal; the comparison never raises.
C5_EqIffSameVariantAndPayload ==
    last.op = "eq" =>
        LET a == opt[last.id]
            b == opt[last.arg]
            same == /\ Option_is_some(a) = Option_is_some(b)
                    /\ Option_is_some(a) => a.value = b.value
        IN  last.ret.kind = (IF same THEN "True" ELSE "False")

\* ----------------------------------------------------- HashMap claims

\* C6: insert(k, v) returns Some(old) when k was present with value old and
\* None_ when k was absent; afterwards get(k) is Some(v), every other key
\* keeps its value and len grows by one only when k was absent; an insert
\* right after insert(k, v1) on the same key returns Some(v1).
C6_Insert ==
    [][last'.op = "insert" =>
        LET k == last'.id
            v == last'.arg
        IN  /\ last'.ret = HashMap_get(dict, k)
            /\ HashMap_get(dict', k) = RetSome(v)
            /\ \A k2 \in Keys \ {k} : HashMap_get(dict', k2) = HashMap_get(dict, k2)
            /\ HashMap_len(dict') =
                   HashMap_len(dict) + (IF HashMap_contains(dict, k) THEN 0 ELSE 1)
            /\ (last.op = "insert" /\ last.id = k) => last'.ret = RetSome(last.arg)]_vars

C6_Witness ==
    /\ last.op = "insert"
    /\ last.ret.kind = "Some"
    /\ last.ret.val # last.arg
    /\ HashMap_get(dict, last.id) = RetSome(last.arg)
    /\ HashMap_len(dict) = 2

\* C7: remove(k) returns Some(v) and leaves k absent when k was present with
\* value v, and returns None_ leaving the map unchanged when k was absent;
\* remove_entry(k) does the same but returns Some((k, v)); all other keys
\* keep their values, and a remove right after a remove of the same key
\* returns None_.
C7_Remove ==
    [][last'.op \in {"remove", "remove_entry"} =>
        LET k == last'.id
            old == HashMap_get(dict, k)
        IN  /\ HashMap_contains(dict, k) =>
                /\ last'.ret = (IF last'.op = "remove" THEN old
                                ELSE RetPair(k, old.val))
                /\ ~HashMap_contains(dict', k)
                /\ HashMap_len(dict') = HashMap_len(dict) - 1
            /\ ~HashMap_contains(dict, k) =>
                /\ last'.ret = RetNone
                /\ dict' = dict
            /\ \A k2 \in Keys \ {k} : HashMap_get(dict', k2) = HashMap_get(dict, k2)
            /\ (last.op \in {"remove", "remove_entry"} /\ last.id = k) =>
                   last'.ret = RetNone]_vars

C7_Witness ==
    /\ last.op = "remove_entry"
    /\ last.ret.kind = "SomePair"
    /\ ~HashMap_contains(dict, last.id)
    /\ HashMap_len(dict) = 1

\* C8: entry(k) returns an OccupiedEntry iff k is present at the moment of
\* the call, a VacantEntry otherwise, and leaves the map unchanged.
C8_Entry ==
    [][last'.op = "entry" =>
        /\ last'.ret.kind =
               (IF HashMap_contains(dict, last'.id) THEN "Occupied" ELSE "Vacant")
        /\ last'.ret.key = last'.id
        /\ entry' = Entry(last'.ret.kind, last'.id)
        /\ dict' = dict]_vars

C8_Witness ==
    /\ last.op = "entry"
    /\ last.ret.kind = "Occupied"
    /\ HashMap_contains(dict, last.id)

\* C9: m.entry(k).or_insert_with(f) and m.entry(k).or_insert_with_key(f)
\* never invoke f when k is present, leave the value at k unchanged and
\* return a Ref that reads it; when k is absent f is invoked exactly once
\* and its result is stored at k.
C9_OrInsertWithLazy ==
    [][last'.op \in {"entry.or_insert_with", "entry.or_insert_with_key"} =>
        LET k == last'.id
            fv == IF last'.op = "entry.or_insert_with" THEN last'.arg
                  ELSE ApplyKey(last'.fn, k)
        IN  /\ last'.ret = RetRef(k)
            /\ HashMap_contains(dict, k) =>
                /\ last'.calls = 0
                /\ dict' = dict
                /\ ref_get(dict', k) = dict_getitem(dict, k)
            /\ ~HashMap_contains(dict, k) =>
                /\ last'.calls = 1
                /\ HashMap_get(dict', k) = RetSome(fv)
                /\ ref_get(dict', k) = RetValue(fv)]_vars

C9_Witness ==
    /\ last.op = "entry.or_insert_with"
    /\ last.calls = 0
    /\ HashMap_contains(dict, last.id)
    /\ ref_get(dict, last.id) # RetValue(last.arg)

\* C10: for m.entry(k).and_modify(f).or_insert(d): when k is absent f is
\* never invoked and the map ends with m[k] = d; when k is present with
\* value v, f is invoked exactly once on a Ref to that value, d is not
\* stored and the returned Ref reads the modified value.  Run twice with
\* f = incr and d = 1 on a map without k, the expression reads 1 then 2.
C10_AndModifyOrInsert ==
    [][last'.op = "entry.and_modify.or_insert" =>
        LET k == last'.id
            g == last'.fn
            d == last'.arg
            same == /\ last.op = "entry.and_modify.or_insert"
                    /\ last.id = k /\ last.fn = g /\ last.arg = d
        IN  /\ last'.ret = RetRef(k)
            /\ \A k2 \in Keys \ {k} : HashMap_get(dict', k2) = HashMap_get(dict, k2)
            /\ ~HashMap_contains(dict, k) =>
                /\ last'.calls = 0
                /\ ref_get(dict', k) = RetValue(d)
            /\ HashMap_contains(dict, k) =>
                /\ last'.calls = 1
                /\ ref_get(dict', k) =
                       RetValue(Apply(g, dict_getitem(dict, k).val))
            /\ (same /\ last.calls = 0 /\ g = "incr" /\ d = 1) =>
                   /\ ref_get(dict, k) = RetValue(1)
                   /\ ref_get(dict', k) = RetValue(2)]_vars

C10_Witness ==
    /\ last.op = "entry.and_modify.or_insert"
    /\ last.fn = "incr"
    /\ last.arg = 1
    /\ last.calls = 1
    /\ ref_get(dict, last.id) = RetValue(2)

\* C11: VacantEntry.insert(v), and or_insert(v) on a vacant entry, create
\* the key with value v, growing len by one, and return a Ref bound to that
\* slot: its get() returns the map's current value for the key, and its
\* set(w) / modify(f) change the value that get(k) returns.
C11_VacantInsert ==
    [][/\ (/\ last'.op \in {"e.insert", "e.or_insert"}
           /\ entry.kind = "Vacant"
           /\ ~HashMap_contains(dict, entry.key)) =>
            LET k == entry.key
                v == last'.arg
            IN  /\ last'.ret = RetRef(k)
                /\ k \in refs'
                /\ HashMap_get(dict', k) = RetSome(v)
                /\ HashMap_len(dict') = HashMap_len(dict) + 1
                /\ ref_get(dict', k) = RetValue(v)
                /\ \A w \in Values :
                       HashMap_get(ref_set(dict', k, w), k) = RetSome(w)
                /\ \A g \in Fns :
                       HashMap_get(Ref_modify(dict', k, g).dict, k) =
                           RetSome(Apply(g, v))
       /\ (/\ last.op \in {"e.insert", "e.or_insert"}
           /\ entry.kind = "Vacant"
           /\ last.ret.kind = "Ref"
           /\ last'.id = last.id) =>
            /\ last'.op = "mapref.get" => last'.ret = RetValue(last.arg)
            /\ last'.op = "mapref.set" =>
                   HashMap_get(dict', last.id) = RetSome(last'.arg)
            /\ last'.op = "mapref.modify" =>
                   HashMap_get(dict', last.id) =
                       RetSome(Apply(last'.fn, last.arg))]_vars

C11_Witness ==
    /\ last.op = "e.insert"
    /\ entry.kind = "Vacant"
    /\ last.ret = RetRef(entry.key)
    /\ entry.key \in refs
    /\ HashMap_get(dict, entry.key) = RetSome(last.arg)
    /\ HashMap_len(dict) = 2

\* Number of positions of a sequence that hold x.
Count(seq, x) == Cardinality({i \in DOMAIN seq : seq[i] = x})

\* C12: retain(p), for a predicate that adds and removes no key, invokes p
\* exactly once for every key present at the call and for no other key,
\* and leaves exactly the keys on which p returned true, each with the
\* value p left through its Ref.
C12_Retain ==
    [][last'.op = "retain" =>
         /\ last'.ret = RetUnit
         /\ last'.calls = HashMap_len(dict)
         /\ \A k \in Keys :
                Count(last'.log, k) = IF HashMap_contains(dict, k) THEN 1 ELSE 0
         /\ dict_keys(dict') =
                {k \in dict_keys(dict) : ApplyPred(last'.pred, k)}
         /\ \A k \in dict_keys(dict') :
                HashMap_get(dict', k) =
                    LET old == dict_getitem(dict, k).val
                    IN  RetSome(IF last'.fn = "none" THEN old
                                ELSE Apply(last'.fn, old))]_vars

C12_Witness ==
    /\ last.op = "retain"
    /\ last.pred = "even"
    /\ last.fn = "incr"
    /\ last.log = <<1, 2>>
    /\ dict_keys(dict) = {2}

\* C13: once key k has been removed, set(v) on a Ref obtained for k earlier
\* fails with an error and creates no entry: k stays absent and len is
\* unchanged.
C13_StaleSetFails ==
    [][(last'.op = "mapref.set" /\ ~HashMap_contains(dict, last'.id)) =>
        /\ IsRaise(last'.ret)
        /\ ~HashMap_contains(dict', last'.id)
        /\ HashMap_len(dict') = HashMap_len(dict)]_vars

\* C14: while the slot behind a Ref is removed (the key is not in the map,
\* the Option's payload has been deleted by take()), get() on the Ref fails
\* with an error; in particular get() right after the remove(k) or the
\* take() that removed the slot fails, returning neither the value from
\* before the removal nor a default.
C14_StaleGetFails ==
    [][/\ (last'.op = "mapref.get" /\ ~HashMap_contains(dict, last'.id)) =>
            IsRaise(last'.ret)
       /\ (last'.op = "mapref.get" /\ last.op = "remove" /\ last.id = last'.id) =>
            IsRaise(last'.ret)
       /\ (last'.op = "ref.get" /\ opt[last'.id].value = Unset) =>
            IsRaise(last'.ret)
       /\ (/\ last'.op = "ref.get"
           /\ last.op = "take" /\ last.ret.kind = "Some"
           /\ last.id = last'.id) =>
            IsRaise(last'.ret)]_vars

C14_Witness ==
    /\ last.op = "ref.get"
    /\ last.ret = Raise("AttributeError")
    /\ Option_is_none(opt[last.id])
    /\ refs # {}
    /\ \E k \in refs : ~HashMap_contains(dict, k)

\* C15: Ref.modify(f) on a readable slot writes f(old) where old is what
\* get() returned, invokes f once and returns the same Ref; afterwards
\* get() returns f(old) and no other slot of the container has changed.
C15_RefModify ==
    [][/\ (last'.op = "mapref.modify" /\ ~IsRaise(ref_get(dict, last'.id))) =>
            LET k == last'.id
                old == ref_get(dict, k).val
            IN  /\ last'.ret = RetRef(k)
                /\ last'.calls = 1
                /\ ref_get(dict', k) = RetValue(Apply(last'.fn, old))
                /\ HashMap_len(dict') = HashMap_len(dict)
                /\ \A k2 \in Keys \ {k} :
                       HashMap_get(dict', k2) = HashMap_get(dict, k2)
       /\ (last'.op = "ref.modify" /\ ~IsRaise(get_value(opt[last'.id]))) =>
            LET i == last'.id
                old == get_value(opt[i]).val
            IN  /\ last'.ret = RetRef(NoKey)
                /\ last'.calls = 1
                /\ get_value(opt'[i]) = RetValue(Apply(last'.fn, old))
                /\ opt'[i].cls = opt[i].cls
                /\ \A j \in OptIds \ {i} : opt'[j] = opt[j]]_vars

C15_Witness ==
    /\ last.op = "mapref.modify"
    /\ last.fn = "incr"
    /\ last.calls = 1
    /\ ref_get(dict, last.id) = RetValue(2)
    /\ HashMap_len(dict) = 2

\* C16: drain() returns every pair of the map exactly once, with the value
\* the key had, and the map is empty as soon as drain() has returned.
C16_Drain ==
    [][last'.op = "drain" =>
         /\ Len(last'.items) = HashMap_len(dict)
         /\ \A k \in Keys :
                Count(dict_list(last'.items), k) =
                    IF HashMap_contains(dict, k) THEN 1 ELSE 0
         /\ \A i \in DOMAIN last'.items :
                HashMap_get(dict, last'.items[i][1]) = RetSome(last'.items[i][2])
         /\ HashMap_len(dict') = 0
         /\ HashMap_is_empty(dict')
         /\ \A k \in Keys : HashMap_get(dict', k) = RetNone]_vars

C16_Witness ==
    /\ last.op = "drain"
    /\ Len(last.items) = 2
    /\ HashMap_is_empty(dict)

\* insert(k, v) for each pair, in order
RECURSIVE InsertEach(_, _)
InsertEach(d, pairs) ==
    IF pairs = <<>> THEN d
    ELSE InsertEach(HashMap_insert(d, Head(pairs)[1], Head(pairs)[2]).dict,
                    Tail(pairs))

\* C17: extend(pairs) leaves the map as insert(k, v) for each pair in order
\* would: a key of the pairs holds the value of its last pair, every other
\* key is untouched; from_iter(pairs) builds what extend(pairs) builds on
\* an empty map.
C17_Extend ==
    [][/\ last'.op = "extend" =>
            LET pairs == last'.items
            IN  /\ dict' = InsertEach(dict, pairs)
                /\ \A k \in Keys :
                       HashMap_get(dict', k) =
                           IF Count(dict_list(pairs), k) > 0
                           THEN LET hi == CHOOSE i \in DOMAIN pairs :
                                              /\ pairs[i][1] = k
                                              /\ \A j \in DOMAIN pairs :
                                                     pairs[j][1] = k => j <= i
                                IN  RetSome(pairs[hi][2])
                           ELSE HashMap_get(dict, k)
       /\ last'.op = "from_iter" =>
            LET pairs == last'.items
            IN  /\ dict' = InsertEach(HashMap_new, pairs)
                /\ \A k \in Keys :
                       HashMap_get(dict', k) =
                           IF Count(dict_list(pairs), k) > 0
                           THEN LET hi == CHOOSE i \in DOMAIN pairs :
                                              /\ pairs[i][1] = k
                                              /\ \A j \in DOMAIN pairs :
                                                     pairs[j][1] = k => j <= i
                                IN  RetSome(pairs[hi][2])
                           ELSE RetNone]_vars

C17_Witness ==
    /\ last.op = "extend"
    /\ Len(last.items) = 2
    /\ last.items[1][1] = last.items[2][1]
    /\ last.items[1][2] # last.items[2][2]
    /\ HashMap_get(dict, last.items[1][1]) = RetSome(last.items[2][2])
    /\ HashMap_len(dict) = 2

\* C18: iter_mut() and values_mut() yield exactly one Ref per key of the
\* map, iter_mut() pairing each Ref with its own key; modify(f) on each of
\* them leaves the key set unchanged and takes every value v to f(v).
C18_ModifyEach ==
    [][last'.op \in {"values_mut.modify", "iter_mut.modify"} =>
         /\ last'.ret = RetUnit
         /\ Len(last'.log) = HashMap_len(dict)
         /\ \A k \in Keys :
                Count(last'.log, k) = IF HashMap_contains(dict, k) THEN 1 ELSE 0
         /\ \A i \in DOMAIN last'.items : last'.items[i][1] = last'.items[i][2]
         /\ dict_keys(dict') = dict_keys(dict)
         /\ HashMap_len(dict') = HashMap_len(dict)
         /\ \A k \in dict_keys(dict) :
                HashMap_get(dict', k) =
                    RetSome(Apply(last'.fn, dict_getitem(dict, k).val))]_vars

C18_Witness ==
    /\ last.op = "values_mut.modify"
    /\ last.fn = "incr"
    /\ last.log = <<2, 1>>
    /\ HashMap_get(dict, 1) = RetSome(1)
    /\ HashMap_get(dict, 2) = RetSome(2)

\* ------------------------------------------------------ Result claims

\* C19: the class-per-variant draft and the tagged draft give the same
\* answer (the same value, the same Result, or the same error) for is_ok,
\* is_err, map, map_err, map_or, map_or_else, and_, and_then, or_, or_else,
\* unwrap_or, unwrap_or_else, unwrap, unwrap_err, expect, expect_err and ==
\* on the same value with the same arguments.
C19_DraftsAgree ==
    last.op \in {"is_ok", "is_err", "map", "map_err", "map_or", "map_or_else",
                 "and_", "and_then", "or_", "or_else", "unwrap_or",
                 "unwrap_or_else", "unwrap", "unwrap_err", "expect",
                 "expect_err", "==", "==self"} =>
        /\ last.ret = last.alt
        /\ PResult_repr(resP) = TResult_repr(resT)

\* C20: in the tagged draft Result(left=..., right=...) with both or with
\* neither keyword raises AssertionError and builds no object; Ok(v) gives
\* state ok with only `_right` assigned, Err(e) state err with only `_left`.
C20_Constructor ==
    [][/\ last'.op = "Result" =>
            LET left == last'.items[1]
                right == last'.items[2]
            IN  /\ ((left = nothing) = (right = nothing)) =>
                       /\ last'.alt = Raise("AssertionError")
                       /\ resT' = resT
                /\ (left = nothing /\ right # nothing) =>
                       /\ last'.alt = RetUnit
                       /\ resT' = [state |-> "ok", left |-> Unset, right |-> right]
                /\ (left # nothing /\ right = nothing) =>
                       /\ last'.alt = RetUnit
                       /\ resT' = [state |-> "err", left |-> left, right |-> Unset]
       /\ last'.op = "Ok" =>
            resT' = [state |-> "ok", left |-> Unset, right |-> last'.arg]
       /\ last'.op = "Err" =>
            resT' = [state |-> "err", left |-> last'.arg, right |-> Unset]]_vars

C20_Witness ==
    /\ last.op = "Result"
    /\ last.items = <<1, 2>>
    /\ last.alt = Raise("AssertionError")
    /\ resT = [state |-> "err", left |-> 2, right |-> Unset]

\* C21: on the class draft, unwrap() returns v on Ok(v) and raises an
\* AssertionError carrying e on Err(e); unwrap_err() returns e on Err(e) and
\* raises one carrying v on Ok(v); expect(msg) and expect_err(msg) raise in
\* the same cases with an error carrying msg and that value. The Result is
\* the same afterwards.
C21_Unwrap ==
    [][/\ last'.op \in {"unwrap", "unwrap_err", "expect", "expect_err"} =>
            resP' = resP
       /\ last'.op = "unwrap" =>
            last'.ret = IF resP.cls = "Ok" THEN RetValue(resP.value)
                        ELSE Ret("AssertionError", NoKey, resP.value)
       /\ last'.op = "unwrap_err" =>
            last'.ret = IF resP.cls = "Err" THEN RetValue(resP.value)
                        ELSE Ret("AssertionError", NoKey, resP.value)
       /\ last'.op = "expect" =>
            last'.ret = IF resP.cls = "Ok" THEN RetValue(resP.value)
                        ELSE Ret("AssertionError", last'.arg, resP.value)
       /\ last'.op = "expect_err" =>
            last'.ret = IF resP.cls = "Err" THEN RetValue(resP.value)
                        ELSE Ret("AssertionError", last'.arg, resP.value)]_vars

C21_Witness ==
    /\ last.op = "expect"
    /\ last.arg = 2
    /\ resP = Err(1)
    /\ last.ret = Ret("AssertionError", 2, 1)

\* ------------------------------------------- Option claims, the readers

\* C22: Some(v).unwrap() and Some(v).expect(msg) return v; None_.unwrap()
\* raises AssertionError with the fixed unwrap message and None_.expect(msg)
\* raises AssertionError with msg; the Option is the same afterwards.
C22_OptionUnwrap ==
    [][/\ last'.op \in {"o.unwrap", "o.expect"} => opt' = opt
       /\ last'.op = "o.unwrap" =>
            last'.ret = IF Option_is_some(opt[last'.id])
                        THEN RetValue(opt[last'.id].value)
                        ELSE Ret("AssertionError", UnwrapMsg, NoVal)
       /\ last'.op = "o.expect" =>
            last'.ret = IF Option_is_some(opt[last'.id])
                        THEN RetValue(opt[last'.id].value)
                        ELSE Ret("AssertionError", last'.arg, NoVal)]_vars

C22_Witness ==
    /\ last.op = "o.expect"
    /\ last.arg = 2
    /\ Option_is_none(opt[last.id])
    /\ last.ret = Ret("AssertionError", 2, NoVal)

\* C23: Some(v).map(f) is Some(f(v)) with f invoked exactly once;
\* None_.map(f) is None_ and f is not invoked.
C23_Map ==
    [][last'.op = "o.map" =>
         LET o == opt[last'.id]
         IN  IF Option_is_some(o)
             THEN /\ last'.ret = RetSome(Apply(last'.fn, o.value))
                  /\ last'.calls = 1
             ELSE /\ last'.ret = RetNone
                  /\ last'.calls = 0]_vars

C23_Witness ==
    /\ last.op = "o.map"
    /\ last.fn = "incr"
    /\ opt[last.id] = Some(1)
    /\ last.ret = RetSome(2)
    /\ last.calls = 1

\* C24: opt.ok_or(e) is Ok(v) when opt is Some(v) and Err(e) when opt is
\* None_; Ok(v).ok() is Some(v), Err(e).ok() is None_, Err(e).err() is
\* Some(e), Ok(v).err() is None_; so r = Some(v).ok_or(e) has r.ok() Some(v)
\* and r = None_.ok_or(e) has r.err() Some(e).
C24_OkOr ==
    [][/\ last'.op = "o.ok_or" =>
            LET o == opt[last'.id]
            IN  /\ last'.ret = IF Option_is_some(o) THEN Ret("Ok", NoKey, o.value)
                               ELSE Ret("Err", NoKey, last'.arg)
                /\ resP' = IF Option_is_some(o) THEN Ok(o.value)
                           ELSE Err(last'.arg)
       /\ last'.op = "r.ok" =>
            last'.ret = IF resP.cls = "Ok" THEN RetSome(resP.value) ELSE RetNone
       /\ last'.op = "r.err" =>
            last'.ret = IF resP.cls = "Err" THEN RetSome(resP.value) ELSE RetNone
       /\ (last.op = "o.ok_or" /\ last'.op = "r.ok"
              /\ Option_is_some(opt[last.id])) =>
            last'.ret = RetSome(opt[last.id].value)
       /\ (last.op = "o.ok_or" /\ last'.op = "r.err"
              /\ Option_is_none(opt[last.id])) =>
            last'.ret = RetSome(last.arg)]_vars

C24_Witness ==
    /\ last.op = "o.ok_or"
    /\ last.arg = 2
    /\ Option_is_none(opt[last.id])
    /\ resP = Err(2)
    /\ PResult_err(resP) = Some(2)

\* C25: Option.from_optional(x).into_optional() is x for the null value and
\* for every other value x; from_optional takes null to None_ and any other
\* value to Some(x).
C25_RoundTrip ==
    [][/\ last'.op = "from_optional.into_optional" =>
            last'.ret = RetValue(last'.arg)
       /\ last'.op = "from_optional" =>
            opt'[last'.id] = IF last'.arg = null THEN None_ ELSE Some(last'.arg)
       /\ (last.op = "from_optional" /\ last'.op = "o.into_optional"
              /\ last'.id = last.id) =>
            last'.ret = RetValue(last.arg)]_vars

C25_Witness ==
    /\ last.op = "from_optional.into_optional"
    /\ last.arg = 0
    /\ last.ret = RetValue(0)

\* C26: is_some, is_none, unwrap, unwrap_or, unwrap_or_else, expect, map,
\* map_or, map_or_else, ok_or, ok_or_else, and_, and_then, filter, or_,
\* or_else, xor, zip, iter and into_optional leave the Option with the same
\* class and payload; an Option they return on Some is not the receiver,
\* and a take or replace on the receiver right after leaves it as returned.
C26_ReadersLeaveSelf ==
    [][LET readers == {"is_some", "is_none", "o.unwrap", "o.unwrap_or",
                       "o.unwrap_or_else", "o.expect", "o.map", "o.map_or",
                       "o.map_or_else", "o.ok_or", "o.ok_or_else", "o.and_",
                       "o.and_then", "o.filter", "o.or_", "o.or_else", "o.xor",
                       "o.zip", "o.iter", "o.into_optional"}
           options == {"Some", "None_"}
       IN  /\ last'.op \in readers =>
                /\ opt' = opt
                /\ optRef' = optRef
           /\ (last'.op \in readers /\ opt[last'.id].cls = "Some"
                  /\ last'.ret.kind \in options) =>
                last'.ret.key = NoKey
           /\ (last.op \in readers /\ last.ret.kind \in options
                  /\ last'.op \in {"take", "replace"} /\ last'.id = last.id
                  /\ opt[last.id].cls = "Some") =>
                last.ret = IF last.ret.key = NoKey THEN last.ret
                           ELSE [AsRet(opt'[last.ret.key])
                                     EXCEPT !.key = last.ret.key]]_vars

C26_Witness ==
    /\ last.op = "o.or_else"
    /\ opt[last.id] = Some(1)
    /\ last.ret = RetSome(1)
    /\ last.calls = 0

\* ------------------------------------------------ stale handle claims

\* C27: get, insert, remove or remove_entry on an OccupiedEntry whose key
\* has been removed from the map since entry(k) fails with an error and
\* leaves the map as it was; a failing insert(v) does not re-create the key.
C27_StaleOccupiedFails ==
    [][(/\ last'.op \in {"e.get", "e.insert", "e.remove", "e.remove_entry"}
        /\ entry.kind = "Occupied"
        /\ ~HashMap_contains(dict, entry.key)) =>
            /\ IsRaise(last'.ret)
            /\ dict' = dict]_vars

\* C28: or_insert, or_insert_with, or_insert_with_key and VacantEntry.insert
\* on an entry whose key is in the map at the call leave the value of that
\* key as it is, and the default callable is not invoked.
C28_NoOverwrite ==
    [][(/\ \/ last'.op \in {"e.or_insert", "e.or_insert_with",
                            "e.or_insert_with_key"}
           \/ last'.op = "e.insert" /\ entry.kind = "Vacant"
        /\ HashMap_contains(dict, entry.key)) =>
            /\ HashMap_get(dict', entry.key) = HashMap_get(dict, entry.key)
            /\ last'.op \in {"e.or_insert_with", "e.or_insert_with_key"} =>
                   last'.calls = 0]_vars

\* C29: retain with a predicate that removes a key the loop has not
\* visited yet returns normally, does not invoke the predicate for the key
\* that was removed, and leaves exactly the keys that the predicate did not
\* remove and on which it returned true.
C29_RetainRemoving ==
    [][LET late == {j \in DOMAIN dict :
                       \E i \in 1..(j - 1) : dict[j][1] = dict[i][1] + 1}
           removed == {k \in dict_keys(dict) : HashMap_contains(dict, k - 1)}
       IN  (last'.op = "retain.removing" /\ late # {}) =>
               /\ last'.ret = RetUnit
               /\ \A j \in late : Count(last'.log, dict[j][1]) = 0
               /\ dict_keys(dict') =
                      {k \in dict_keys(dict) \ removed :
                           ApplyPred(last'.pred, k)}]_vars

\* C30: a Ref handed out by the map for key k reads and writes the slot
\* of k in the map as it is now: while k is present get() returns the
\* value the map holds for k (after insert(k, v2), whatever happened to k
\* before, it returns v2) and changes nothing; set(w) makes get(k) return
\* Some(w) and leaves every other key as it was.
C30_RefFollowsKey ==
    [][/\ (last'.op = "mapref.get" /\ HashMap_contains(dict, last'.id)) =>
            /\ last'.ret.kind = "Value"
            /\ HashMap_get(dict, last'.id) = RetSome(last'.ret.val)
            /\ dict' = dict
       /\ (/\ last'.op = "mapref.get"
           /\ last.op = "insert" /\ last.id = last'.id) =>
            last'.ret = RetValue(last.arg)
       /\ last'.op = "mapref.set" =>
            /\ HashMap_get(dict', last'.id) = RetSome(last'.arg)
            /\ \A k \in Keys \ {last'.id} :
                   HashMap_get(dict', k) = HashMap_get(dict, k)]_vars

\* A Ref for key 2 writes 1 while key 1, inserted first, holds 0; the
\* entry for key 2 was vacant when it was looked up.
C30_Witness ==
    /\ last.op = "mapref.set"
    /\ last.id = 2
    /\ dict = <<<<1, 0>>, <<2, 1>>>>
    /\ entry = Entry("Vacant", 2)

====
